---------------------------- MODULE Spec2Model ----------------------------
(***************************************************************************)
(* Model of the smartcards synchronisation engine:                         *)
(*   useAppSync  (src/src/hooks/useAppSync.ts, second definition)          *)
(*   useDropbox  (src/unnamed/part_007)                                    *)
(*   useStore    (src/unnamed/part_006)                                    *)
(*   helpers     (src/unnamed/part_004: stableStringify)                   *)
(* One engine instance (a browser tab) is modelled in full; the other      *)
(* instances that share the remote document appear as the uploads they     *)
(* make.  Every asynchronous function is cut at its awaits; a step of      *)
(* the model is the synchronous code between two awaits followed by the    *)
(* React render and effects it causes (state updates of one continuation   *)
(* are batched into one render).  A function created in a render reads     *)
(* the state of that render for its whole life: every operation carries    *)
(* the values it captured when it was started (field cap).                 *)
(***************************************************************************)
EXTENDS Integers, Sequences, FiniteSets, TLC

\* ------------------------------------------------------------------ bounds
\* The events of the environment in a behaviour: user edits, uploads of other
\* instances, failing remote calls, manual saves and conflict resolutions
MaxEvents == 2
\* The revisions the remote store hands out in a behaviour
MaxRev == 3

\* -------------------------------------------------------------- JSON values
\* A JavaScript value: null, undefined, a string, an array, or an object.
\* An object is the sequence of its <<key, value>> pairs in insertion order.
JNull == [t |-> "null"]
JUndef == [t |-> "undef"]
JStr(s) == [t |-> "str", v |-> s]
JArr(a) == [t |-> "arr", v |-> a]
JObj(ps) == [t |-> "obj", v |-> ps]

\* Variant for the sensitivity of C28: the empty string and the empty array
\* taken for absent as well
IsNullishOrEmpty(x) ==
    \/ x.t \in {"null", "undef"}
    \/ (x.t = "str" /\ x.v = "")
    \/ (x.t = "arr" /\ Len(x.v) = 0)

\* val === null || val === undefined
IsNullish(x) == x.t \in {"null", "undef"}

Keys(o) == {o.v[n][1] : n \in 1..Len(o.v)}
HasKey(o, k) == k \in Keys(o)

\* o[k]; undefined when the key is absent
Get(o, k) ==
    IF HasKey(o, k)
    THEN o.v[CHOOSE n \in 1..Len(o.v) : o.v[n][1] = k][2]
    ELSE JUndef

\* {...o, k: x}: replaced in place when present, appended otherwise
Put(o, k, x) ==
    IF HasKey(o, k)
    THEN JObj([n \in 1..Len(o.v) |-> IF o.v[n][1] = k THEN <<k, x>> ELSE o.v[n]])
    ELSE JObj(Append(o.v, <<k, x>>))

\* x || []
OrEmpty(x) == IF IsNullish(x) THEN JArr(<<>>) ELSE x

\* The keys the model uses, in the order of String.prototype.sort
\* (UTF-16 code units: "_" sorts before the lower-case letters).
KeyOrder ==
    << "_meta", "appVersion", "attachments", "cards", "customColors", "id",
       "linkedCardIds", "projectIds", "projects" >>

\* Object.keys(o).sort()
SortedKeys(o) == SelectSeq(KeyOrder, LAMBDA k : HasKey(o, k))

RECURSIVE clean(_)
\* stableStringify's inner clean(): arrays element-wise, objects with sorted
\* keys and without the keys whose value is null or undefined
clean(input) ==
    IF input.t = "arr"
    THEN JArr([n \in 1..Len(input.v) |-> clean(input.v[n])])
    ELSE IF input.t = "obj"
    THEN LET ks == SelectSeq(SortedKeys(input),
                             LAMBDA k : ~IsNullish(Get(input, k)))
         IN JObj([n \in 1..Len(ks) |-> <<ks[n], clean(Get(input, ks[n]))>>])
    ELSE input

RECURSIVE Flatten(_)
Flatten(ss) == IF ss = <<>> THEN <<>> ELSE Head(ss) \o Flatten(Tail(ss))

RECURSIVE JSONstringify(_)
\* JSON.stringify as a sequence of tokens (the text, cut at token borders)
JSONstringify(x) ==
    IF x.t = "str" THEN << "\"", x.v, "\"" >>
    ELSE IF x.t = "arr"
    THEN << "[" >>
         \o Flatten([n \in 1..Len(x.v) |->
                (IF n > 1 THEN << "," >> ELSE <<>>) \o JSONstringify(x.v[n])])
         \o << "]" >>
    ELSE IF x.t = "obj"
    THEN LET ps == SelectSeq(x.v, LAMBDA p : p[2].t # "undef")
         IN << "{" >>
            \o Flatten([n \in 1..Len(ps) |->
                   (IF n > 1 THEN << "," >> ELSE <<>>)
                   \o << "\"", ps[n][1], "\"", ":" >> \o JSONstringify(ps[n][2])])
            \o << "}" >>
    ELSE << "null" >>

stableStringify(obj) == JSONstringify(clean(obj))

\* The engine's content hash: stableStringify({ projects, cards, customColors })
HashOf(projects, cards, customColors) ==
    stableStringify(JObj(<< <<"projects", projects>>, <<"cards", cards>>,
                            <<"customColors", customColors>> >>))

EmptyHash == <<>>     \* the empty string
NoHash == << "none" >> \* localStorage.getItem(...) === null
NoRev == 0            \* null revision; revisions are 1, 2, ...

\* ------------------------------------------------------------------- store
\* useStore's accessors
Projects(d) == Get(d, "projects")
Cards(d) == Get(d, "cards")
CustomColors(d) == OrEmpty(Get(d, "customColors"))

\* currentHash of a render whose store holds d
CurrentHash(d) == HashOf(Projects(d), Cards(d), CustomColors(d))

IdOf(x) == Get(x, "id").v

addProject(d, project) ==
    Put(d, "projects", JArr(Append(Projects(d).v, project)))

addCard(d, card) ==
    Put(d, "cards", JArr(Append(Cards(d).v, card)))

\* Variant for the sensitivity of C38: deleteCard that leaves the other cards
\* as they are
WithLinkKept(c, id) == c

\* { ...c, linkedCardIds: c.linkedCardIds?.filter(linkedId => linkedId !== id) || [] }
WithoutLink(c, id) ==
    Put(c, "linkedCardIds",
        IF IsNullish(Get(c, "linkedCardIds"))
        THEN JArr(<<>>)
        ELSE JArr(SelectSeq(Get(c, "linkedCardIds").v, LAMBDA l : l.v # id)))

\* Variant for the sensitivity of C29: deleteProject that leaves the cards as
\* they are
WithProjectKept(c, id) == c

\* { ...c, projectIds: c.projectIds.filter(pid => pid !== id) }
WithoutProject(c, id) ==
    Put(c, "projectIds",
        JArr(SelectSeq(Get(c, "projectIds").v, LAMBDA p : p.v # id)))

deleteCard(d, id) ==
    LET kept == SelectSeq(Cards(d).v, LAMBDA c : IdOf(c) # id)
    IN  Put(d, "cards",
            JArr([n \in 1..Len(kept) |-> WithoutLink(kept[n], id)]))

deleteProject(d, id) ==
    Put(Put(d, "projects",
            JArr(SelectSeq(Projects(d).v, LAMBDA p : IdOf(p) # id))),
        "cards",
        JArr([n \in 1..Len(Cards(d).v) |-> WithoutProject(Cards(d).v[n], id)]))

\* The entities the user works with in the model
ProjectP1 == JObj(<< <<"id", JStr("p1")>> >>)
CardC1 == JObj(<< <<"id", JStr("c1")>>, <<"projectIds", JArr(<< JStr("p1") >>)>>,
              <<"attachments", JArr(<<>>)>>, <<"linkedCardIds", JArr(<<>>)>> >>)

MkData(projects, cards) ==
    JObj(<< <<"projects", JArr(projects)>>, <<"cards", JArr(cards)>>,
            <<"customColors", JArr(<<>>)>> >>)

HasId(arr, id) == \E n \in 1..Len(arr.v) : IdOf(arr.v[n]) = id

\* The store contents one user edit can produce from d
Edits(d) ==
    (IF HasId(Projects(d), "p1") THEN {deleteProject(d, "p1")}
                                 ELSE {addProject(d, ProjectP1)})
    \cup
    (IF HasId(Cards(d), "c1") THEN {deleteCard(d, "c1")}
                              ELSE {addCard(d, CardC1)})

\* ------------------------------------------------------------------- state
VARIABLES
    remote,              \* the remote document: remote[r] is its content under revision r
    data,                \* useStore: the store's data
    storedHash,          \* localStorage sm_last_synced_hash_v3
    storedRevision,      \* localStorage: the revision kept beside that hash
    isAuthenticated,     \* useDropbox state
    isSyncing,           \* useDropbox state
    isCloudLoaded,       \* useAppSync state
    lastSavedHash,       \* useAppSync state
    lastServerRevision,  \* useAppSync state
    hasConflict,         \* useAppSync state
    recent,              \* Date.now() - lastLocalChange.current is inside the guard window
    timer,               \* the pending auto-save timeout and the render it closes over
    init,                \* the initial load in flight
    auto,                \* the auto-save callback in flight
    poll,                \* the checkForUpdates call in flight
    user,                \* the resolveConflict / handleManualSave call in flight
    writes,              \* remote writes by auto-save since the local snapshot last changed
    lastSave,            \* how the last auto-save upload ended (saveData's errorType)
    rejected,            \* the remote operation the last step saw rejected with 401, if any
    pair,                \* two values handed to stableStringify, and the strings it returned
    events               \* environment events so far

vars == << remote, data, storedHash, storedRevision, isAuthenticated, isSyncing, isCloudLoaded,
           lastSavedHash, lastServerRevision, hasConflict, recent, timer, init,
           auto, poll, user, writes, lastSave, rejected, pair, events >>

Idle == [pc |-> "idle"]
\* a user operation has returned: which one, and whether it took effect
Returned(op, ok) == [pc |-> "idle", op |-> op, ok |-> ok]
NoTimer == [on |-> FALSE]
\* no hash comparison is under way
NoPair == [pc |-> "off"]

\* ------------------------------------------------------------ remote store
Latest == Len(remote)

Meta == JObj(<< <<"appVersion", JStr("1.0.1")>> >>)

\* { ...currentData, _meta } with currentData = { projects, cards, customColors }
Payload(d) ==
    JObj(<< <<"projects", Projects(d)>>, <<"cards", Cards(d)>>,
            <<"customColors", CustomColors(d)>>, <<"_meta", Meta>> >>)

D0 == MkData(<< ProjectP1 >>, <<>>)
D1 == MkData(<< ProjectP1 >>, << CardC1 >>)

\* the documents the other instances upload
OtherDocs == {Payload(D0), Payload(D1)}

\* Variant for the sensitivity of C3: a store that takes every upload (mode
\* overwrite whatever parentRev is)
StoreAlwaysOverwrites(parentRev) == TRUE

\* filesUpload's mode: update(parentRev) succeeds only on the revision it names,
\* overwrite always
StoreAccepts(parentRev) == parentRev = NoRev \/ parentRev = Latest

\* getLatestRevision(): the revision of the file, or null when the metadata
\* cannot be read (no file, or both strategies fail)
MetaAnswers ==
    {[rev |-> Latest, fault |-> FALSE, kind |-> "none"]}
    \cup (IF events < MaxEvents /\ Latest # NoRev
          THEN {[rev |-> NoRev, fault |-> TRUE, kind |-> k] : k \in {"network", "auth"}}
          ELSE {})

\* Variant for the sensitivity of C17: a download by path, which returns the
\* content the store holds now beside the revision asked for
DownloadsCurrentContent(rev) ==
    {[ok |-> TRUE, data |-> remote[Latest], rev |-> rev, fault |-> FALSE, kind |-> "none"]}
    \cup (IF events < MaxEvents
          THEN {[ok |-> FALSE, data |-> JNull, rev |-> rev, fault |-> TRUE, kind |-> k] :
                    k \in {"network", "auth"}}
          ELSE {})

\* dbx.filesDownload({ path: `rev:${rev}` }) inside loadData: the content of
\* that revision, or null when the call throws
DownloadAnswers(rev) ==
    {[ok |-> TRUE, data |-> remote[rev], rev |-> rev, fault |-> FALSE, kind |-> "none"]}
    \cup (IF events < MaxEvents
          THEN {[ok |-> FALSE, data |-> JNull, rev |-> rev, fault |-> TRUE, kind |-> k] :
                    k \in {"network", "auth"}}
          ELSE {})

\* saveData's result for each way filesUpload can end
SaveResult(kind, rev) ==
    [success |-> kind = "ok", conflict |-> kind = "conflict",
     errorType |-> IF kind = "ok" THEN "none" ELSE kind, rev |-> rev]

\* dbx.filesUpload at the store, and what saveData makes of the answer
UploadOutcomes(content, parentRev) ==
    LET written == Append(remote, content)
        canWrite == StoreAccepts(parentRev) /\ Latest < MaxRev
        mayFail == events < MaxEvents
    IN  (IF canWrite
         THEN {[remote |-> written, res |-> SaveResult("ok", Latest + 1), fault |-> FALSE]}
         ELSE {})
        \cup
        (IF ~StoreAccepts(parentRev)
         THEN {[remote |-> remote, res |-> SaveResult("conflict", NoRev), fault |-> FALSE]}
         ELSE {})
        \cup
        (IF mayFail
         THEN {[remote |-> remote, res |-> SaveResult(k, NoRev), fault |-> TRUE] :
                   k \in {"network", "server_error", "auth"}}
         ELSE {})
        \cup
        (IF mayFail /\ canWrite
         THEN {[remote |-> written, res |-> SaveResult("server_error", NoRev), fault |-> TRUE]}
         ELSE {})

\* An upload of another engine instance is accepted by the store
OtherInstanceSaves ==
    /\ events < MaxEvents
    /\ Latest < MaxRev
    /\ events' = events + 1
    /\ \E doc \in OtherDocs : remote' = Append(remote, doc)
    /\ UNCHANGED << data, storedHash, isAuthenticated, isSyncing, isCloudLoaded,
                    lastSavedHash, lastServerRevision, hasConflict, recent,
                    timer, init, auto, poll, user, writes, lastSave >>
    /\ rejected' = "none"
    /\ pair' = pair
    /\ storedRevision' = storedRevision

\* ----------------------------------------------------------- render, effects
\* the state of the current render
Cur ==
    [data |-> data, touched |-> FALSE, silent |-> FALSE,
     lsh |-> lastSavedHash, lsr |-> lastServerRevision,
     hc |-> hasConflict, auth |-> isAuthenticated,
     loaded |-> isCloudLoaded, syncing |-> isSyncing,
     stored |-> storedHash, writes |-> writes, lastSave |-> lastSave,
     rejected |-> "none", init |-> init]

\* render n of the step in which remote operation op got the answer a
Answered(n, a, op) ==
    [n EXCEPT !.rejected = IF a.kind = "auth" THEN op ELSE "none"]

\* the values a function created in render n closes over
Closure(n) == [on |-> TRUE, data |-> n.data, lsh |-> n.lsh, lsr |-> n.lsr, hc |-> n.hc]

\* Variant for the sensitivity of C39: an auto-save effect without its guard on
\* the projects
AutoSaveArmedWhenEmpty(n) == n.auth /\ n.loaded

\* the auto-save effect's guards before setTimeout
AutoSaveArmed(n) ==
    n.auth /\ n.loaded /\ Len(Projects(n.data).v) # 0

\* Variant for the sensitivity of C22: an auto-save effect that does not depend
\* on projects, cards and customColors
AutoSaveDepsWithoutSnapshot(n) ==
    \/ n.auth # isAuthenticated
    \/ n.loaded # isCloudLoaded
    \/ n.lsh # lastSavedHash

\* the auto-save effect's dependency list
AutoSaveDepsChanged(n) ==
    \/ n.touched
    \/ n.auth # isAuthenticated
    \/ n.loaded # isCloudLoaded
    \/ n.lsh # lastSavedHash

\* Variant for the sensitivity of C21: the initial-load effect without its
\* isInitializingRef lock
InitialLoadGuardNoLock(n) == n.auth /\ ~n.loaded

\* if (isDropboxAuthenticated && !isCloudLoaded && !isInitializingRef.current)
InitialLoadGuard(n) == n.auth /\ ~n.loaded /\ ~n.init.isInitializing

\* The initial-load effect of render n: behind its guard it takes the lock and
\* calls loadData(); second records that this is not the first call
InitialLoadEffect(n) ==
    IF InitialLoadGuard(n)
    THEN [pc |-> "meta", data |-> n.data, rev |-> NoRev, raced |-> FALSE,
          isInitializing |-> TRUE, second |-> TRUE]
    ELSE n.init

\* Commit render n and run its effects: the change-tracking effect stamps
\* lastLocalChange unless a cloud load is pending, the initial-load effect
\* checks its guard, the auto-save effect clears its timeout and sets a new one.
Render(n) ==
    /\ init' = InitialLoadEffect(n)
    /\ data' = n.data
    /\ storedHash' = n.stored
    /\ isAuthenticated' = n.auth
    /\ isSyncing' = n.syncing
    /\ isCloudLoaded' = n.loaded
    /\ lastSavedHash' = n.lsh
    /\ lastServerRevision' = n.lsr
    /\ hasConflict' = n.hc
    /\ writes' = IF n.touched THEN 0 ELSE n.writes
    /\ lastSave' = n.lastSave
    /\ rejected' = n.rejected
    /\ pair' = pair
    /\ storedRevision' = storedRevision
    /\ recent' = IF n.touched /\ ~n.silent THEN TRUE ELSE recent
    /\ timer' = IF AutoSaveDepsChanged(n)
                THEN IF AutoSaveArmed(n) THEN Closure(n) ELSE NoTimer
                ELSE timer

\* ------------------------------------------------------------------- Init
\* After mount with a stored token: the initial-load effect has run and its
\* loadData() waits for the revision.
Init ==
    /\ remote \in {<<>>, << Payload(D1) >>}
    /\ data = D0
    /\ storedHash \in {NoHash, CurrentHash(D0), CurrentHash(D1)}
    /\ storedRevision = NoRev
    /\ isAuthenticated = TRUE
    /\ isSyncing = TRUE
    /\ isCloudLoaded = FALSE
    /\ lastSavedHash = EmptyHash
    /\ lastServerRevision = NoRev
    /\ hasConflict = FALSE
    /\ recent = TRUE
    /\ timer = NoTimer
    /\ init = [pc |-> "meta", data |-> D0, rev |-> NoRev, raced |-> FALSE,
               isInitializing |-> TRUE, second |-> FALSE]
    /\ auto = Idle
    /\ poll = Idle
    /\ user = Idle
    /\ writes = 0
    /\ lastSave = "none"
    /\ rejected = "none"
    /\ pair = NoPair
    /\ events = 0

\* -------------------------------------------------------------- user edits
\* Variant for the sensitivity of C32: the editing surface is there before the
\* initial load has completed
UiShownBeforeLoad == isAuthenticated

\* App renders the editing surface only when connected and loaded
UiShown == isAuthenticated /\ isCloudLoaded

\* Variant for the sensitivity of C16: a store mutation that also records the
\* new content as saved
MutateMarksSaved ==
    /\ UiShown
    /\ events < MaxEvents
    /\ events' = events + 1
    /\ \E d \in Edits(data) :
          Render([Cur EXCEPT !.data = d, !.touched = TRUE, !.lsh = CurrentHash(d)])
    /\ UNCHANGED << remote, auto, poll, user >>

\* A store mutation (addCard, deleteCard, addProject, deleteProject)
Mutate ==
    /\ UiShown
    /\ events < MaxEvents
    /\ events' = events + 1
    /\ \E d \in Edits(data) :
          Render([Cur EXCEPT !.data = d, !.touched = TRUE])
    /\ UNCHANGED << remote, auto, poll, user >>

\* The guard window after the last local change runs out
GuardElapses ==
    /\ recent
    /\ recent' = FALSE
    /\ UNCHANGED << remote, data, storedHash, isAuthenticated, isSyncing,
                    isCloudLoaded, lastSavedHash, lastServerRevision,
                    hasConflict, timer, init, auto, poll, user, writes, lastSave, events >>
    /\ rejected' = "none"
    /\ pair' = pair
    /\ storedRevision' = storedRevision

\* ------------------------------------------------------------ initial load
Truthy(x) == ~IsNullish(x)

NormalizeCard(c) ==
    Put(Put(Put(c, "projectIds", OrEmpty(Get(c, "projectIds"))),
            "attachments", OrEmpty(Get(c, "attachments"))),
        "linkedCardIds", OrEmpty(Get(c, "linkedCardIds")))

\* NORMALIZE DATA: { ...raw, projects || [], cards normalised, customColors || [] }
Normalize(raw) ==
    Put(Put(Put(raw, "projects", OrEmpty(Get(raw, "projects"))),
            "cards", JArr([n \in 1..Len(OrEmpty(Get(raw, "cards")).v) |->
                              NormalizeCard(OrEmpty(Get(raw, "cards")).v[n])])),
        "customColors", OrEmpty(Get(raw, "customColors")))

\* Variant for the sensitivity of C13: the recovery hash is not consulted
RecoveryHashIgnored(stored, currentHash) == FALSE

\* storedHash && storedHash !== currentHash
HasUnsavedLocalChanges(stored, currentHash) ==
    stored # NoHash /\ stored # EmptyHash /\ stored # currentHash

\* The render the initial load's then-callback leads to, result = { data, rev }
InitialLoadApply(result) ==
    LET n0 == [Cur EXCEPT !.syncing = FALSE]
        currentHash == CurrentHash(init.data)
        norm == Normalize(result.data)
    IN  IF HasUnsavedLocalChanges(storedHash, currentHash)
        THEN [n0 EXCEPT !.lsh = storedHash, !.lsr = result.rev, !.loaded = TRUE]
        ELSE IF Truthy(Get(result.data, "projects")) /\ Truthy(Get(result.data, "cards"))
        THEN \* loadDataStore(normalizedData); the next render's change-tracking
             \* effect takes the hash of the store and the pending revision
             [n0 EXCEPT !.data = norm, !.touched = TRUE, !.silent = TRUE,
                        !.lsh = CurrentHash(norm), !.lsr = result.rev,
                        !.stored = CurrentHash(norm), !.loaded = TRUE]
        ELSE [n0 EXCEPT !.loaded = TRUE]

\* The render after loadData() resolved to null: the callback returns at !result
InitialLoadFailed == [Cur EXCEPT !.syncing = FALSE]

\* loadData(): Step 1, getLatestRevision()
InitialLoadMeta ==
    /\ init.pc = "meta"
    /\ \E a \in MetaAnswers :
          /\ events' = IF a.fault THEN events + 1 ELSE events
          /\ IF a.rev = NoRev
             THEN Render(Answered([InitialLoadFailed EXCEPT
                                      !.init = [init EXCEPT !.pc = "failed"]],
                                  a, "getLatestRevision"))
             ELSE Render([Cur EXCEPT
                             !.init = [init EXCEPT !.pc = "download", !.rev = a.rev]])
    /\ UNCHANGED << remote, auto, poll, user >>

\* loadData(): Step 2, download of that revision, then the callback
InitialLoadDownload ==
    /\ init.pc = "download"
    /\ \E a \in DownloadAnswers(init.rev) :
          /\ events' = IF a.fault THEN events + 1 ELSE events
          /\ IF a.ok
             THEN \* raced: the store has moved on since the revision was read
                  Render([InitialLoadApply(a) EXCEPT
                             !.init = [init EXCEPT !.pc = "done",
                                                   !.raced = (Latest # init.rev)]])
             ELSE Render(Answered([InitialLoadFailed EXCEPT
                                      !.init = [init EXCEPT !.pc = "failed"]],
                                  a, "download"))
    /\ UNCHANGED << remote, auto, poll, user >>

\* ---------------------------------------------------------------- auto-save
\* Variant for the sensitivity of C4: no pre-flight revision check
PreflightSkipped(serverRev, lsr) == FALSE

\* serverRev && lastServerRevision && serverRev !== lastServerRevision
PreflightConflict(serverRev, lsr) ==
    serverRev # NoRev /\ lsr # NoRev /\ serverRev # lsr

\* Variant for the sensitivity of C6: the callback without its redundancy check
AutoSaveCallbackNoSkip(cap) ==
    IF cap.hc THEN Idle ELSE [pc |-> "rev", cap |-> cap]

\* The timeout callback up to its first await: what it becomes
AutoSaveCallback(cap) ==
    IF cap.hc THEN Idle
    ELSE IF CurrentHash(cap.data) = cap.lsh THEN Idle
    ELSE [pc |-> "rev", cap |-> cap]

\* The timeout fires
AutoSaveFire ==
    /\ timer.on
    /\ ~recent
    /\ auto.pc = "idle"
    /\ timer' = NoTimer
    /\ auto' = AutoSaveCallback(timer)
    /\ UNCHANGED << remote, data, storedHash, isAuthenticated, isSyncing,
                    isCloudLoaded, lastSavedHash, lastServerRevision,
                    hasConflict, recent, init, poll, user, writes, lastSave, events >>
    /\ rejected' = "none"
    /\ pair' = pair
    /\ storedRevision' = storedRevision

\* await getLatestRevision() returns: pre-flight check, then saveWithMeta
AutoSaveRev ==
    /\ auto.pc = "rev"
    /\ \E a \in MetaAnswers :
          /\ events' = IF a.fault THEN events + 1 ELSE events
          /\ IF PreflightConflict(a.rev, auto.cap.lsr)
             THEN /\ auto' = Idle
                  /\ Render([Cur EXCEPT !.hc = TRUE])
             ELSE /\ auto' = [auto EXCEPT !.pc = "upload"]
                  /\ Render(Answered([Cur EXCEPT !.syncing = TRUE], a,
                                     "getLatestRevision"))
    /\ UNCHANGED << remote, poll, user >>

\* saveWithMeta: saveData(payload, lastServerRevision) of the captured render;
\* filesUpload reaches the store (or fails on the way)
AutoSaveUpload ==
    /\ auto.pc = "upload"
    /\ \E o \in UploadOutcomes(Payload(auto.cap.data), auto.cap.lsr) :
          /\ events' = IF o.fault THEN events + 1 ELSE events
          /\ remote' = o.remote
          /\ auto' = [pc |-> "saved", cap |-> auto.cap, res |-> o.res]
          /\ writes' = IF o.remote # remote /\ auto.cap.data = data
                       THEN writes + 1 ELSE writes
    /\ UNCHANGED << data, storedHash, isAuthenticated, isSyncing, isCloudLoaded,
                    lastSavedHash, lastServerRevision, hasConflict, recent,
                    timer, init, poll, user, lastSave >>
    /\ rejected' = "none"
    /\ pair' = pair
    /\ storedRevision' = storedRevision

\* saveData's catch and finally: isSyncing cleared, the session dropped on 401
SaveDataSettled(n, res) ==
    [n EXCEPT !.syncing = FALSE,
              !.auth = IF res.errorType = "auth" THEN FALSE ELSE @,
              !.rejected = IF res.errorType = "auth" THEN "upload" ELSE "none"]

\* Variant for the sensitivity of C9: a failed upload of any kind raises the
\* conflict
AfterSaveFailureIsConflict(n, res, d) ==
    IF ~res.success THEN [n EXCEPT !.hc = TRUE]
    ELSE [n EXCEPT !.lsh = CurrentHash(d),
                   !.lsr = IF res.rev # NoRev THEN res.rev ELSE @,
                   !.stored = CurrentHash(d)]

\* Variant for the sensitivity of C34: a save that takes a rejected upload for
\* a failure like any other
AfterSaveConflictIgnored(n, res, d) ==
    IF res.success
    THEN [n EXCEPT !.lsh = CurrentHash(d),
                   !.lsr = IF res.rev # NoRev THEN res.rev ELSE @,
                   !.stored = CurrentHash(d)]
    ELSE n

\* Variant for the sensitivity of C33: a save that records the hash of what it
\* uploaded and keeps the revision it knew
AfterSaveKeepsRevision(n, res, d) ==
    IF res.conflict THEN [n EXCEPT !.hc = TRUE]
    ELSE IF res.success
    THEN [n EXCEPT !.lsh = CurrentHash(d), !.stored = CurrentHash(d)]
    ELSE n

\* What auto-save and manual save do with { success, rev, conflict } after an
\* upload of the data d they captured
AfterSave(n, res, d) ==
    IF res.conflict THEN [n EXCEPT !.hc = TRUE]
    ELSE IF res.success
    THEN [n EXCEPT !.lsh = CurrentHash(d),
                   !.lsr = IF res.rev # NoRev THEN res.rev ELSE @,
                   !.stored = CurrentHash(d)]
    ELSE n

\* await saveWithMeta(currentData) returns
AutoSaveDone ==
    /\ auto.pc = "saved"
    /\ auto' = Idle
    /\ Render(AfterSave(SaveDataSettled([Cur EXCEPT !.lastSave = auto.res.errorType],
                                         auto.res),
                         auto.res, auto.cap.data))
    /\ UNCHANGED << remote, poll, user, events >>

\* --------------------------------------------------------------- drift poll
\* if (!isDropboxAuthenticated || isSyncing) return;
\* if (!force && timeSinceLastChange < 2000) return;
PollMayStart(force) ==
    isAuthenticated /\ ~isSyncing /\ (force \/ ~recent)

\* if (!latestRev || latestRev === lastServerRevision) return;
PollNoUpdate(latestRev, lsr) == latestRev = NoRev \/ latestRev = lsr

\* if (lastSavedHash && currentHash !== lastSavedHash): dirty and server changed
PollDirty(cap) == cap.lsh # EmptyHash /\ CurrentHash(cap.data) # cap.lsh

\* if (currentHash === lastSavedHash || lastSavedHash === "") after the download
PollMayApply(cap) == CurrentHash(cap.data) = cap.lsh \/ cap.lsh = EmptyHash

\* setInterval(() => checkForUpdates(false), 10000)
PollTimer ==
    /\ poll.pc = "idle"
    /\ PollMayStart(FALSE)
    /\ poll' = [pc |-> "rev", cap |-> Closure(Cur), rev |-> NoRev]
    /\ UNCHANGED << remote, data, storedHash, isAuthenticated, isSyncing,
                    isCloudLoaded, lastSavedHash, lastServerRevision,
                    hasConflict, recent, timer, init, auto, user, writes, lastSave, events >>
    /\ rejected' = "none"
    /\ pair' = pair
    /\ storedRevision' = storedRevision

\* handleTrigger (visibilitychange, focus, online): checkForUpdates(true)
PollTrigger ==
    /\ poll.pc = "idle"
    /\ PollMayStart(TRUE)
    /\ poll' = [pc |-> "rev", cap |-> Closure(Cur), rev |-> NoRev]
    /\ UNCHANGED << remote, data, storedHash, isAuthenticated, isSyncing,
                    isCloudLoaded, lastSavedHash, lastServerRevision,
                    hasConflict, recent, timer, init, auto, user, writes, lastSave, events >>
    /\ rejected' = "none"
    /\ pair' = pair
    /\ storedRevision' = storedRevision

\* await getLatestRevision() returns in checkForUpdates
PollRev ==
    /\ poll.pc = "rev"
    /\ \E a \in MetaAnswers :
          /\ events' = IF a.fault THEN events + 1 ELSE events
          /\ IF PollNoUpdate(a.rev, poll.cap.lsr)
             THEN /\ poll' = Idle
                  /\ Render(Answered(Cur, a, "getLatestRevision"))
             ELSE \* loadData(latestRev) starts: for the diff, or for the pull;
                  \* seen and dirty record the snapshot as it is at this moment
                  /\ poll' = [pc |-> IF PollDirty(poll.cap) THEN "diag" ELSE "download",
                              cap |-> poll.cap, rev |-> a.rev, seen |-> data,
                              dirty |-> CurrentHash(data) # lastSavedHash]
                  /\ Render([Cur EXCEPT !.syncing = TRUE])
    /\ UNCHANGED << remote, auto, user >>

\* The diagnostic loadData(latestRev) returns; then setHasConflict(true)
PollDiag ==
    /\ poll.pc = "diag"
    /\ \E a \in DownloadAnswers(poll.rev) :
          /\ events' = IF a.fault THEN events + 1 ELSE events
          /\ poll' = Idle
          /\ Render(Answered([Cur EXCEPT !.syncing = FALSE, !.hc = TRUE], a,
                             "download"))
    /\ UNCHANGED << remote, auto, user >>

\* The render after the pull's loadData(latestRev) returned result
PollApply(cap, result) ==
    LET n0 == [Cur EXCEPT !.syncing = FALSE]
        cloudData == Normalize(result.data)
        cloudHash == HashOf(Get(cloudData, "projects"), Get(cloudData, "cards"),
                            Get(cloudData, "customColors"))
    IN  IF ~(result.ok /\ Truthy(Get(result.data, "projects")))
        THEN n0
        ELSE IF PollMayApply(cap)
        THEN [n0 EXCEPT !.data = cloudData, !.touched = TRUE,
                        !.lsh = cloudHash, !.lsr = result.rev,
                        !.stored = cloudHash, !.hc = FALSE]
        ELSE [n0 EXCEPT !.hc = TRUE]

\* The pull's loadData(latestRev) returns
PollDownload ==
    /\ poll.pc = "download"
    /\ \E a \in DownloadAnswers(poll.rev) :
          /\ events' = IF a.fault THEN events + 1 ELSE events
          /\ poll' = Idle
          /\ Render(Answered(PollApply(poll.cap, a), a, "download"))
    /\ UNCHANGED << remote, auto, user >>

\* -------------------------------------------------------------- manual save
\* handleManualSave() is called: `if (hasConflict) return` passed, up to its
\* first await
ManualSaveStart ==
    /\ UiShown
    /\ user.pc = "idle"
    /\ ~hasConflict
    /\ events < MaxEvents
    /\ events' = events + 1
    /\ user' = [pc |-> "m_rev", cap |-> Closure(Cur)]
    /\ UNCHANGED << remote, data, storedHash, isAuthenticated, isSyncing,
                    isCloudLoaded, lastSavedHash, lastServerRevision, hasConflict,
                    recent, timer, init, auto, poll, writes, lastSave >>
    /\ rejected' = "none"
    /\ pair' = pair
    /\ storedRevision' = storedRevision

\* await getLatestRevision() returns: pre-flight check, then saveWithMeta
ManualSaveRev ==
    /\ user.pc = "m_rev"
    /\ \E a \in MetaAnswers :
          /\ events' = IF a.fault THEN events + 1 ELSE events
          /\ IF PreflightConflict(a.rev, user.cap.lsr)
             THEN /\ user' = Returned("manual", FALSE)
                  /\ Render([Cur EXCEPT !.hc = TRUE])
             ELSE /\ user' = [pc |-> "m_upload", cap |-> user.cap]
                  /\ Render(Answered([Cur EXCEPT !.syncing = TRUE], a,
                                     "getLatestRevision"))
    /\ UNCHANGED << remote, auto, poll >>

\* filesUpload of the manual save reaches the store (or fails on the way)
ManualSaveUpload ==
    /\ user.pc = "m_upload"
    /\ \E o \in UploadOutcomes(Payload(user.cap.data), user.cap.lsr) :
          /\ events' = IF o.fault THEN events + 1 ELSE events
          /\ remote' = o.remote
          /\ user' = [pc |-> "m_saved", cap |-> user.cap, res |-> o.res]
    /\ UNCHANGED << data, storedHash, isAuthenticated, isSyncing, isCloudLoaded,
                    lastSavedHash, lastServerRevision, hasConflict, recent,
                    timer, init, auto, poll, writes, lastSave >>
    /\ rejected' = "none"
    /\ pair' = pair
    /\ storedRevision' = storedRevision

\* await saveWithMeta(data) returns in handleManualSave
ManualSaveDone ==
    /\ user.pc = "m_saved"
    /\ user' = Returned("manual", user.res.success)
    /\ Render(AfterSave(SaveDataSettled(Cur, user.res), user.res, user.cap.data))
    /\ UNCHANGED << remote, auto, poll, events >>

\* ------------------------------------------------------ conflict resolution
\* resolveConflict(strategy) is called from the conflict dialog
ResolveStart ==
    /\ UiShown
    /\ hasConflict
    /\ user.pc = "idle"
    /\ events < MaxEvents
    /\ events' = events + 1
    /\ \E strategy \in {"accept_cloud", "keep_local"} :
          user' = [pc |-> IF strategy = "accept_cloud" THEN "a_rev" ELSE "k_rev",
                   cap |-> Closure(Cur)]
    /\ UNCHANGED << remote, data, storedHash, isAuthenticated, isSyncing,
                    isCloudLoaded, lastSavedHash, lastServerRevision, hasConflict,
                    recent, timer, init, auto, poll, writes, lastSave >>
    /\ rejected' = "none"
    /\ pair' = pair
    /\ storedRevision' = storedRevision

\* accept_cloud: await getLatestRevision() returns; loadData(secureRev || undefined)
AcceptCloudRev ==
    /\ user.pc = "a_rev"
    /\ \E a \in MetaAnswers :
          /\ events' = IF a.fault THEN events + 1 ELSE events
          /\ user' = [pc |-> IF a.rev = NoRev THEN "a_meta" ELSE "a_download",
                      cap |-> user.cap, rev |-> a.rev]
          /\ Render(Answered([Cur EXCEPT !.syncing = TRUE], a,
                             "getLatestRevision"))
    /\ UNCHANGED << remote, auto, poll >>

\* accept_cloud: loadData(undefined) asks for the latest revision itself
AcceptCloudMeta ==
    /\ user.pc = "a_meta"
    /\ \E a \in MetaAnswers :
          /\ events' = IF a.fault THEN events + 1 ELSE events
          /\ IF a.rev = NoRev
             THEN /\ user' = Returned("accept_cloud", FALSE)
                  /\ Render(Answered([Cur EXCEPT !.syncing = FALSE], a,
                                     "getLatestRevision"))
             ELSE /\ user' = [user EXCEPT !.pc = "a_download", !.rev = a.rev]
                  /\ Render(Cur)
    /\ UNCHANGED << remote, auto, poll >>

\* Variant for the sensitivity of C5: accept_cloud that loads the document but
\* keeps the revision and the conflict as they were
AcceptCloudApplyDataOnly(result) ==
    LET n0 == [Cur EXCEPT !.syncing = FALSE]
    IN  IF result.ok /\ Truthy(result.data)
        THEN [n0 EXCEPT !.data = result.data, !.touched = TRUE]
        ELSE n0

\* The render after accept_cloud's loadData returned result
AcceptCloudApply(result) ==
    LET n0 == [Cur EXCEPT !.syncing = FALSE]
        cloudHash == HashOf(Get(result.data, "projects"), Get(result.data, "cards"),
                            OrEmpty(Get(result.data, "customColors")))
    IN  IF result.ok /\ Truthy(result.data)
        THEN [n0 EXCEPT !.data = result.data, !.touched = TRUE,
                        !.lsh = cloudHash, !.lsr = result.rev,
                        !.stored = cloudHash, !.hc = FALSE]
        ELSE n0

\* accept_cloud: the download returns
AcceptCloudDownload ==
    /\ user.pc = "a_download"
    /\ \E a \in DownloadAnswers(user.rev) :
          /\ events' = IF a.fault THEN events + 1 ELSE events
          /\ user' = Returned("accept_cloud", a.ok /\ Truthy(a.data))
          /\ Render(Answered(AcceptCloudApply(a), a, "download"))
    /\ UNCHANGED << remote, auto, poll >>

\* keep_local: await getLatestRevision() returns; setLastServerRevision(latest),
\* then saveData(payload, latest)
KeepLocalRev ==
    /\ user.pc = "k_rev"
    /\ \E a \in MetaAnswers :
          /\ events' = IF a.fault THEN events + 1 ELSE events
          /\ user' = [pc |-> "k_upload", cap |-> user.cap, rev |-> a.rev]
          /\ Render(Answered([Cur EXCEPT !.lsr = a.rev, !.syncing = TRUE], a,
                             "getLatestRevision"))
    /\ UNCHANGED << remote, auto, poll >>

\* keep_local: filesUpload reaches the store (or fails on the way)
KeepLocalUpload ==
    /\ user.pc = "k_upload"
    /\ \E o \in UploadOutcomes(Payload(user.cap.data), user.rev) :
          /\ events' = IF o.fault THEN events + 1 ELSE events
          /\ remote' = o.remote
          /\ user' = [pc |-> "k_saved", cap |-> user.cap, res |-> o.res]
    /\ UNCHANGED << data, storedHash, isAuthenticated, isSyncing, isCloudLoaded,
                    lastSavedHash, lastServerRevision, hasConflict, recent,
                    timer, init, auto, poll, writes, lastSave >>
    /\ rejected' = "none"
    /\ pair' = pair
    /\ storedRevision' = storedRevision

\* Variant for the sensitivity of C14: keep_local that adopts hash and revision
\* and leaves the conflict standing
AfterKeepLocalConflictKept(n, res, d) ==
    IF res.success
    THEN [n EXCEPT !.lsh = CurrentHash(d),
                   !.lsr = IF res.rev # NoRev THEN res.rev ELSE @,
                   !.stored = CurrentHash(d)]
    ELSE n

\* Variant for the sensitivity of C15: keep_local that adopts hash and clears
\* the conflict whatever saveData returned
AfterKeepLocalResultIgnored(n, res, d) ==
    [n EXCEPT !.lsh = CurrentHash(d),
              !.lsr = IF res.rev # NoRev THEN res.rev ELSE @,
              !.stored = CurrentHash(d), !.hc = FALSE]

\* What keep_local does with { success, rev } after the upload of the data d
AfterKeepLocal(n, res, d) ==
    IF res.success
    THEN [n EXCEPT !.lsh = CurrentHash(d),
                   !.lsr = IF res.rev # NoRev THEN res.rev ELSE @,
                   !.stored = CurrentHash(d), !.hc = FALSE]
    ELSE n

\* keep_local: await saveData(payload, latest) returns
KeepLocalDone ==
    /\ user.pc = "k_saved"
    /\ user' = Returned("keep_local", user.res.success)
    /\ Render(AfterKeepLocal(SaveDataSettled(Cur, user.res), user.res, user.cap.data))
    /\ UNCHANGED << remote, auto, poll, events >>

Next ==
    \/ OtherInstanceSaves
    \/ Mutate
    \/ GuardElapses
    \/ InitialLoadMeta
    \/ InitialLoadDownload
    \/ AutoSaveFire
    \/ AutoSaveRev
    \/ AutoSaveUpload
    \/ AutoSaveDone
    \/ PollTimer
    \/ PollTrigger
    \/ PollRev
    \/ PollDiag
    \/ PollDownload
    \/ ManualSaveStart
    \/ ManualSaveRev
    \/ ManualSaveUpload
    \/ ManualSaveDone
    \/ ResolveStart
    \/ AcceptCloudRev
    \/ AcceptCloudMeta
    \/ AcceptCloudDownload
    \/ KeepLocalRev
    \/ KeepLocalUpload
    \/ KeepLocalDone

Spec == Init /\ [][Next]_vars

\* ------------------------------------------- the engine as the only writer
\* The steps of this instance and of its environment without the uploads of
\* other instances
SoloNext ==
    \/ Mutate
    \/ GuardElapses
    \/ InitialLoadMeta
    \/ InitialLoadDownload
    \/ AutoSaveFire
    \/ AutoSaveRev
    \/ AutoSaveUpload
    \/ AutoSaveDone
    \/ PollTimer
    \/ PollTrigger
    \/ PollRev
    \/ PollDiag
    \/ PollDownload
    \/ ManualSaveStart
    \/ ManualSaveRev
    \/ ManualSaveUpload
    \/ ManualSaveDone
    \/ ResolveStart
    \/ AcceptCloudRev
    \/ AcceptCloudMeta
    \/ AcceptCloudDownload
    \/ KeepLocalRev
    \/ KeepLocalUpload
    \/ KeepLocalDone

\* The remote document of Init, if any, is of this instance's earlier sessions
SoloSpec == Init /\ [][SoloNext]_vars

\* --------------------------------------- manual save while a conflict is shown
\* handleManualSave() is called while hasConflict: `return { success: false }`
ManualSaveRefused ==
    /\ UiShown
    /\ user.pc = "idle"
    /\ hasConflict
    /\ events < MaxEvents
    /\ events' = events + 1
    /\ user' = Returned("manual", FALSE)
    /\ UNCHANGED << remote, data, storedHash, isAuthenticated, isSyncing,
                    isCloudLoaded, lastSavedHash, lastServerRevision, hasConflict,
                    recent, timer, init, auto, poll, writes, lastSave >>
    /\ rejected' = "none"
    /\ pair' = pair
    /\ storedRevision' = storedRevision

GateNext == Next \/ ManualSaveRefused

GateSpec == Init /\ [][GateNext]_vars

\* ------------------------- one instance, a reliable network, no other writer
\* The steps of the engine when every request is answered: no step uses up one
\* of the failures that events counts
ReliableInitialLoadMeta == InitialLoadMeta /\ events' = events
ReliableInitialLoadDownload == InitialLoadDownload /\ events' = events
ReliableAutoSaveRev == AutoSaveRev /\ events' = events
ReliableAutoSaveUpload == AutoSaveUpload /\ events' = events
ReliablePollRev == PollRev /\ events' = events
ReliablePollDiag == PollDiag /\ events' = events
ReliablePollDownload == PollDownload /\ events' = events

\* The engine's own steps: timers that fire and requests that are answered
EngineNext ==
    \/ GuardElapses
    \/ ReliableInitialLoadMeta
    \/ ReliableInitialLoadDownload
    \/ AutoSaveFire
    \/ ReliableAutoSaveRev
    \/ ReliableAutoSaveUpload
    \/ AutoSaveDone
    \/ PollTimer
    \/ ReliablePollRev
    \/ ReliablePollDiag
    \/ ReliablePollDownload

\* A second card for the user to add and delete
CardC2 == JObj(<< <<"id", JStr("c2")>>, <<"projectIds", JArr(<< JStr("p1") >>)>>,
              <<"attachments", JArr(<<>>)>>, <<"linkedCardIds", JArr(<<>>)>> >>)

MoreEdits(d) ==
    IF HasId(Cards(d), "c2") THEN {deleteCard(d, "c2")} ELSE {addCard(d, CardC2)}

\* The user adds or deletes the second card
MutateMore ==
    /\ UiShown
    /\ events < MaxEvents
    /\ events' = events + 1
    /\ \E d \in MoreEdits(data) :
          Render([Cur EXCEPT !.data = d, !.touched = TRUE])
    /\ UNCHANGED << remote, auto, poll, user >>

\* The user edits, or the window gets the focus, whenever they like
LiveNext == EngineNext \/ Mutate \/ MutateMore \/ PollTrigger

\* setTimeout and setInterval callbacks run, and every request is answered: weak
\* fairness of every step of the engine. For the steps that compute a hash the
\* condition is written out: each of them is enabled exactly in the states
\* named and leaves them, so that WF_vars of the step says that these states
\* are left again and again.
Fairness ==
    /\ WF_vars(GuardElapses)
    /\ WF_vars(ReliableInitialLoadMeta)
    /\ WF_vars(ReliableAutoSaveRev)
    /\ WF_vars(ReliableAutoSaveUpload)
    /\ WF_vars(PollTimer)
    /\ WF_vars(ReliablePollDiag)
    /\ []<>(init.pc # "download")                              \* ReliableInitialLoadDownload
    /\ []<>(~(timer.on /\ ~recent /\ auto.pc = "idle"))         \* AutoSaveFire
    /\ []<>(auto.pc # "saved")                                 \* AutoSaveDone
    /\ []<>(poll.pc # "rev")                                   \* ReliablePollRev
    /\ []<>(poll.pc # "download")                              \* ReliablePollDownload

LiveSpec == Init /\ [][LiveNext]_vars /\ Fairness

\* ------------------------------- remote documents with cards as first created
\* A card as MOCK_CARDS holds it: no attachments and no linkedCardIds
BareCard == JObj(<< <<"id", JStr("c1")>>, <<"projectIds", JArr(<< JStr("p1") >>)>> >>)

DBare == MkData(<<ProjectP1>>, <<BareCard>>)

\* An instance whose store still holds such a card uploads its snapshot
BareInstanceSaves ==
    /\ events < MaxEvents
    /\ Latest < MaxRev
    /\ events' = events + 1
    /\ remote' = Append(remote, Payload(DBare))
    /\ UNCHANGED << data, storedHash, isAuthenticated, isSyncing, isCloudLoaded,
                    lastSavedHash, lastServerRevision, hasConflict, recent,
                    timer, init, auto, poll, user, writes, lastSave >>
    /\ rejected' = "none"
    /\ pair' = pair
    /\ storedRevision' = storedRevision

BareNext == SoloNext \/ BareInstanceSaves

BareSpec == Init /\ [][BareNext]_vars

\* ---------------------------------- a session that starts from unsaved edits
\* After mount with a stored token, as Init, in the case that the previous
\* session last synced an empty store and then added project p1 without a
\* save, and another instance has written a document since
RecoveryInit ==
    /\ remote = << Payload(D1) >>
    /\ data = D0
    /\ storedHash = CurrentHash(MkData(<<>>, <<>>))
    /\ storedRevision = NoRev
    /\ isAuthenticated = TRUE
    /\ isSyncing = TRUE
    /\ isCloudLoaded = FALSE
    /\ lastSavedHash = EmptyHash
    /\ lastServerRevision = NoRev
    /\ hasConflict = FALSE
    /\ recent = TRUE
    /\ timer = NoTimer
    /\ init = [pc |-> "meta", data |-> D0, rev |-> NoRev, raced |-> FALSE,
               isInitializing |-> TRUE, second |-> FALSE]
    /\ auto = Idle
    /\ poll = Idle
    /\ user = Idle
    /\ writes = 0
    /\ lastSave = "none"
    /\ rejected = "none"
    /\ pair = NoPair
    /\ events = 0

RecoverySpec == RecoveryInit /\ [][Next]_vars

\* ------------------------------------------------- stableStringify on its own
\* The longest array among the values handed to stableStringify
MaxElems == 1

Prims == {JNull, JUndef, JStr("a")}

\* the arrays of at most MaxElems elements of S
ArraysOf(S) == {JArr(a) : a \in UNION {[1..n -> S] : n \in 0..MaxElems}}

\* the objects with the keys "id" and "cards", in both insertion orders, or
\* one of them, or none, and values of S
ObjectsOf(S) ==
    {JObj(<<>>)}
    \cup {JObj(<< <<k, x>> >>) : k \in {"id", "cards"}, x \in S}
    \cup {JObj(<< <<"id", x>>, <<"cards", y>> >>) : x \in S, y \in S}
    \cup {JObj(<< <<"cards", y>>, <<"id", x>> >>) : x \in S, y \in S}

Nested == Prims \cup ArraysOf(Prims) \cup ObjectsOf(Prims)

\* The values stableStringify is called with: objects and arrays, nested twice
Snapshots ==
    (Nested \ Prims)
    \cup ArraysOf(Nested)
    \cup {JObj(<< <<"cards", x>> >>) : x \in Nested}

\* The engine at rest beside the comparison
HashInit ==
    /\ pair \in {[pc |-> "in", a |-> a, b |-> b] : a \in Snapshots, b \in Snapshots}
    /\ remote = <<>>
    /\ data = D0
    /\ storedHash = NoHash
    /\ storedRevision = NoRev
    /\ isAuthenticated = FALSE
    /\ isSyncing = FALSE
    /\ isCloudLoaded = FALSE
    /\ lastSavedHash = EmptyHash
    /\ lastServerRevision = NoRev
    /\ hasConflict = FALSE
    /\ recent = FALSE
    /\ timer = NoTimer
    /\ init = Idle
    /\ auto = Idle
    /\ poll = Idle
    /\ user = Idle
    /\ writes = 0
    /\ lastSave = "none"
    /\ rejected = "none"
    /\ events = 0

\* stableStringify(a) and stableStringify(b) are computed
HashCompare ==
    /\ pair.pc = "in"
    /\ pair' = [pc |-> "out", a |-> pair.a, b |-> pair.b,
                ha |-> stableStringify(pair.a), hb |-> stableStringify(pair.b)]
    /\ UNCHANGED << remote, data, storedHash, isAuthenticated, isSyncing,
                    isCloudLoaded, lastSavedHash, lastServerRevision, hasConflict,
                    recent, timer, init, auto, poll, user, writes, lastSave,
                    rejected, events, storedRevision >>

HashNext == HashCompare

HashSpec == HashInit /\ [][HashNext]_vars

\* --------------------------------------- stableStringify and absent keys
\* o without the key k
Without(o, k) == JObj(SelectSeq(o.v, LAMBDA p : p[1] # k))

\* the values a key is set to: the empty ones and the absent ones
Settings == {JStr(""), JArr(<<>>), JNull, JUndef}

\* the objects a key is set in and removed from
Holders == ObjectsOf(Prims \cup {JStr("")} \cup ArraysOf(Prims))

\* stableStringify is called with an object in which a key has been set, and
\* with the same object without that key; the engine is at rest
KeyInit ==
    /\ pair \in {[pc |-> "in", a |-> Put(o, k, x), b |-> Without(o, k)] :
                     o \in Holders, k \in {"id", "cards"}, x \in Settings}
    /\ remote = <<>>
    /\ data = D0
    /\ storedHash = NoHash
    /\ storedRevision = NoRev
    /\ isAuthenticated = FALSE
    /\ isSyncing = FALSE
    /\ isCloudLoaded = FALSE
    /\ lastSavedHash = EmptyHash
    /\ lastServerRevision = NoRev
    /\ hasConflict = FALSE
    /\ recent = FALSE
    /\ timer = NoTimer
    /\ init = Idle
    /\ auto = Idle
    /\ poll = Idle
    /\ user = Idle
    /\ writes = 0
    /\ lastSave = "none"
    /\ rejected = "none"
    /\ events = 0

KeyNext == HashCompare

KeySpec == KeyInit /\ [][KeyNext]_vars

\* ------------------------------------------------- deleteProject on its own
\* The cards of a store the user deletes a project from
MaxCards == 2

\* the project ids in use
StoreProjectIds == {"p1", "p2"}

ProjectOf(id) == JObj(<< <<"id", JStr(id)>> >>)

\* the card of the nth place, in the projects pids
CardOf(n, pids) ==
    JObj(<< <<"id", JStr(IF n = 1 THEN "c1" ELSE IF n = 2 THEN "c2" ELSE "c3")>>,
            <<"projectIds", JArr(pids)>>,
            <<"attachments", JArr(<<>>)>>, <<"linkedCardIds", JArr(<<>>)>> >>)

\* what a card's projectIds can hold: ids of the projects in use, repeated or not
ProjectIdLists ==
    UNION {[1..n -> {JStr(id) : id \in StoreProjectIds}] :
               n \in 0..Cardinality(StoreProjectIds)}

\* the stores: the projects in use in any order or missing, and cards that
\* name any of them, whether the project exists or not
Stores ==
    {MkData(ps, [n \in 1..Len(refs) |-> CardOf(n, refs[n])]) :
        ps \in {<<>>, << ProjectOf("p1") >>, << ProjectOf("p2") >>,
                << ProjectOf("p1"), ProjectOf("p2") >>,
                << ProjectOf("p2"), ProjectOf("p1") >>},
        refs \in UNION {[1..n -> ProjectIdLists] : n \in 0..MaxCards}}

\* the user has deleted project id
Deleted(id) == [pc |-> "idle", op |-> "deleteProject", id |-> id]

\* useStore holds one of the stores; the engine is not connected
StoreInit ==
    /\ data \in Stores
    /\ remote = <<>>
    /\ storedHash = NoHash
    /\ storedRevision = NoRev
    /\ isAuthenticated = FALSE
    /\ isSyncing = FALSE
    /\ isCloudLoaded = FALSE
    /\ lastSavedHash = EmptyHash
    /\ lastServerRevision = NoRev
    /\ hasConflict = FALSE
    /\ recent = FALSE
    /\ timer = NoTimer
    /\ init = Idle
    /\ auto = Idle
    /\ poll = Idle
    /\ user = Idle
    /\ writes = 0
    /\ lastSave = "none"
    /\ rejected = "none"
    /\ pair = NoPair
    /\ events = 0

\* deleteProject(id), for a project of the store or an id no project has
StoreDeleteProject ==
    /\ events = 0
    /\ events' = 1
    /\ \E id \in StoreProjectIds \cup {"p3"} :
          /\ data' = deleteProject(data, id)
          /\ user' = Deleted(id)
    /\ recent' = TRUE
    /\ UNCHANGED << remote, storedHash, storedRevision, isAuthenticated, isSyncing,
                    isCloudLoaded, lastSavedHash, lastServerRevision, hasConflict,
                    timer, init, auto, poll, writes, lastSave, rejected, pair >>

StoreNext == StoreDeleteProject

StoreSpec == StoreInit /\ [][StoreNext]_vars

\* ------------------------------------------- updateCard and deleteCard alone
\* The cards of a store whose links the user edits
MaxLinked == 3

\* the card ids in use; the last one counted is an id no card has
LinkIds == <<"c1", "c2", "c3", "c4", "c5">>

\* c.linkedCardIds || []
Links(c) == OrEmpty(Get(c, "linkedCardIds")).v

\* links.includes(id)
Includes(links, id) == \E n \in 1..Len(links) : links[n].v = id

\* Variant for the sensitivity of C37: updateCard that writes no back-link
WithOwnLinksOnly(c, updatedCard, addedLinks, removedLinks) ==
    IF IdOf(c) = IdOf(updatedCard) THEN updatedCard ELSE c

\* The callback of prev.cards.map in updateCard, cases A to D
WithBackLinks(c, updatedCard, addedLinks, removedLinks) ==
    IF IdOf(c) = IdOf(updatedCard)
    THEN updatedCard
    ELSE IF Includes(addedLinks, IdOf(c)) /\ ~Includes(Links(c), IdOf(updatedCard))
    THEN Put(c, "linkedCardIds", JArr(Append(Links(c), JStr(IdOf(updatedCard)))))
    ELSE IF Includes(removedLinks, IdOf(c))
    THEN Put(c, "linkedCardIds",
             JArr(SelectSeq(Links(c), LAMBDA l : l.v # IdOf(updatedCard))))
    ELSE c

\* prev.cards.find(c => c.id === id), for an id some card has
FindCard(d, id) ==
    Cards(d).v[CHOOSE n \in 1..Len(Cards(d).v) :
                   /\ IdOf(Cards(d).v[n]) = id
                   /\ \A m \in 1..(n - 1) : IdOf(Cards(d).v[m]) # id]

\* newLinks.filter(id => !oldLinks.includes(id))
AddedLinks(d, updatedCard) ==
    SelectSeq(Links(updatedCard),
              LAMBDA l : ~Includes(Links(FindCard(d, IdOf(updatedCard))), l.v))

\* oldLinks.filter(id => !newLinks.includes(id))
RemovedLinks(d, updatedCard) ==
    SelectSeq(Links(FindCard(d, IdOf(updatedCard))),
              LAMBDA l : ~Includes(Links(updatedCard), l.v))

updateCard(d, updatedCard) ==
    IF ~HasId(Cards(d), IdOf(updatedCard))
    THEN d
    ELSE Put(d, "cards",
             JArr([n \in 1..Len(Cards(d).v) |->
                      WithBackLinks(Cards(d).v[n], updatedCard,
                                    AddedLinks(d, updatedCard),
                                    RemovedLinks(d, updatedCard))]))

\* lists of card ids without repetition, the ids by their place in LinkIds
IdLists(n) ==
    {s \in UNION {[1..k -> 1..n] : k \in 0..n} :
        \A i \in 1..Len(s) : \A j \in 1..Len(s) : i < j => s[i] < s[j]}

LinkArrays(n) == {JArr([i \in 1..Len(s) |-> JStr(LinkIds[s[i]])]) : s \in IdLists(n)}

\* a card with the links given, or without the optional linkedCardIds
LinkedCard(id, pids, links) ==
    IF links = JUndef
    THEN JObj(<< <<"id", JStr(id)>>, <<"projectIds", JArr(pids)>> >>)
    ELSE JObj(<< <<"id", JStr(id)>>, <<"linkedCardIds", links>>,
                 <<"projectIds", JArr(pids)>> >>)

\* the stores: up to MaxLinked cards, each listing any of the ids, whether the
\* relation is symmetric or not and whether the card listed exists or not
LinkStores ==
    {MkData(<< ProjectP1 >>, [n \in 1..Len(ls) |-> LinkedCard(LinkIds[n], <<>>, ls[n])]) :
        ls \in UNION {[1..n -> LinkArrays(MaxLinked) \cup {JUndef}] : n \in 0..MaxLinked}}

\* the cards the form hands to updateCard: any id, any links
UpdatedCards ==
    {LinkedCard(LinkIds[n], << JStr("p1") >>, links) :
        n \in 1..(MaxLinked + 1),
        links \in LinkArrays(MaxLinked + 1) \cup {JUndef}}

\* the user has called updateCard(card) or deleteCard(id) on the store prev
Updated(prev, card) == [pc |-> "idle", op |-> "updateCard", prev |-> prev, card |-> card]
CardDeleted(prev, id) == [pc |-> "idle", op |-> "deleteCard", prev |-> prev, id |-> id]

\* useStore holds one of the stores; the engine is not connected
LinkInit ==
    /\ data \in LinkStores
    /\ remote = <<>>
    /\ storedHash = NoHash
    /\ storedRevision = NoRev
    /\ isAuthenticated = FALSE
    /\ isSyncing = FALSE
    /\ isCloudLoaded = FALSE
    /\ lastSavedHash = EmptyHash
    /\ lastServerRevision = NoRev
    /\ hasConflict = FALSE
    /\ recent = FALSE
    /\ timer = NoTimer
    /\ init = Idle
    /\ auto = Idle
    /\ poll = Idle
    /\ user = Idle
    /\ writes = 0
    /\ lastSave = "none"
    /\ rejected = "none"
    /\ pair = NoPair
    /\ events = 0

\* updateCard(updatedCard), for a card of the store or an id no card has
LinkUpdateCard ==
    /\ events = 0
    /\ events' = 1
    /\ \E c \in UpdatedCards :
          /\ data' = updateCard(data, c)
          /\ user' = Updated(data, c)
    /\ recent' = TRUE
    /\ UNCHANGED << remote, storedHash, storedRevision, isAuthenticated, isSyncing,
                    isCloudLoaded, lastSavedHash, lastServerRevision, hasConflict,
                    timer, init, auto, poll, writes, lastSave, rejected, pair >>

\* deleteCard(id), for a card of the store or an id no card has
LinkDeleteCard ==
    /\ events = 0
    /\ events' = 1
    /\ \E n \in 1..(MaxLinked + 1) :
          /\ data' = deleteCard(data, LinkIds[n])
          /\ user' = CardDeleted(data, LinkIds[n])
    /\ recent' = TRUE
    /\ UNCHANGED << remote, storedHash, storedRevision, isAuthenticated, isSyncing,
                    isCloudLoaded, lastSavedHash, lastServerRevision, hasConflict,
                    timer, init, auto, poll, writes, lastSave, rejected, pair >>

LinkNext == LinkUpdateCard \/ LinkDeleteCard

LinkSpec == LinkInit /\ [][LinkNext]_vars


\* ====================================================================
\* Properties
\* ====================================================================

\* const isDirty = isDropboxAuthenticated && (currentHash !== lastSavedHash),
\* without the session
Dirty == CurrentHash(data) # lastSavedHash

\* stableStringify({ projects, cards, customColors }) of a remote document
SnapshotHash(doc) ==
    HashOf(Get(doc, "projects"), Get(doc, "cards"), OrEmpty(Get(doc, "customColors")))

\* The step in which checkForUpdates calls loadDataStore(cloudData): the pull's
\* download returned a document and the captured check let it through
PollPulls ==
    /\ poll.pc = "download"
    /\ poll' = Idle
    /\ events' = events
    /\ Truthy(Get(remote[poll.rev], "projects"))
    /\ PollMayApply(poll.cap)

\* The step in which checkForUpdates finds the revision it knows
PollSeesUnchanged ==
    /\ poll.pc = "rev"
    /\ poll' = Idle
    /\ events' = events
    /\ Latest = lastServerRevision

\* The auto-save effect passes its guards and no conflict is shown
Healthy == AutoSaveArmed(Cur) /\ ~hasConflict

\* An upload names a revision that is not the store's current one
Stale(parentRev) == parentRev # NoRev /\ parentRev # Latest

\* C1 -- Drift poll safety: a poll that observed a remote revision different
\* from lastServerRevision while the local snapshot was dirty (currentHash #
\* lastSavedHash, the empty lastSavedHash included, loaded or not) never calls
\* loadDataStore.
C1_DirtyNeverReplaced == [][PollPulls => ~poll.dirty]_vars

\* C2 -- No automatic data loss under interleaving: when the local snapshot has
\* changed while the poll's download was in flight (after the dirty check,
\* before the replace), the poll sets hasConflict and leaves the snapshot alone.
C2_ChangeDuringDownloadConflicts ==
    [][(poll.pc = "download" /\ poll' = Idle /\ events' = events
            /\ data # poll.seen)
         => (hasConflict' /\ data' = data)]_vars

\* What C3 asks of one upload step: parentRev is what the caller supplied, res
\* what saveData returned, answered whether filesUpload got the store's answer
StaleRejected(parentRev, res, answered) ==
    Stale(parentRev) =>
        /\ remote' = remote
        /\ ~res.success
        /\ answered => (res.conflict /\ res.errorType = "conflict")

\* C3 -- Optimistic lock: an upload whose parentRevision is not the store's
\* current revision is never accepted: the remote document stays as it is, the
\* caller never gets success, and the store's answer reaches the caller as
\* { success: false, conflict: true } (a request that fails on the way is
\* reported under its own errorType). Checked for the uploads of auto-save,
\* manual save and keep_local.
C3_StaleParentRejected ==
    [][/\ (auto.pc = "upload" /\ auto'.pc = "saved")
            => StaleRejected(auto.cap.lsr, auto'.res, events' = events)
       /\ (user.pc = "m_upload" /\ user'.pc = "m_saved")
            => StaleRejected(user.cap.lsr, user'.res, events' = events)
       /\ (user.pc = "k_upload" /\ user'.pc = "k_saved")
            => StaleRejected(user.rev, user'.res, events' = events)]_vars

\* An auto-save upload against a revision another instance has replaced came
\* back as a conflict, the other instance's document still the latest
C3_Witness ==
    /\ auto.pc = "saved"
    /\ auto.res.conflict
    /\ auto.cap.lsr # Latest
    /\ remote[Latest] \in OtherDocs
    /\ remote[Latest] # Payload(auto.cap.data)

\* C4 -- Pre-flight conflict detection: when the auto-save callback learns from
\* getLatestRevision() a revision different from the lastServerRevision it
\* holds (another instance has saved meanwhile), it sets hasConflict, ends
\* without an upload, and the remote document is left as the other instance
\* wrote it.
C4_PreflightConflictNoUpload ==
    [][(auto.pc = "rev" /\ auto' # auto /\ events' = events
            /\ auto.cap.lsr # NoRev /\ Latest # auto.cap.lsr)
         => (hasConflict' /\ auto' = Idle /\ remote' = remote)]_vars

\* Both instances were at revision 1, the other one saved revision 2, and this
\* instance's only timer firing has ended in the pre-flight check: conflict
\* shown, nothing uploaded, revision 2 still the other instance's document
C4_Witness ==
    /\ hasConflict
    /\ Dirty
    /\ lastServerRevision = 1
    /\ Latest = 2
    /\ remote[2] \in OtherDocs
    /\ events = 1
    /\ auto.pc = "idle"
    /\ poll.pc = "idle"
    /\ ~timer.on
    /\ lastSave = "none"

\* C5 as stated -- Conflict convergence: when resolveConflict('accept_cloud')
\* returns, the local hash equals the hash of the remote snapshot at the
\* latest revision, lastSavedHash and lastServerRevision hold the downloaded
\* values, and hasConflict is false.
C5_AcceptCloudConverges ==
    [][(user.pc \in {"a_meta", "a_download"} /\ user'.pc = "idle")
         => /\ CurrentHash(data') = SnapshotHash(remote[Latest])
            /\ lastSavedHash' = CurrentHash(data')
            /\ lastServerRevision' = Latest
            /\ ~hasConflict']_vars

\* C5 amended -- accept_cloud downloads the revision that was the latest when
\* it asked; when the download returns the document, the local hash equals
\* the hash of that revision's snapshot, lastSavedHash and lastServerRevision
\* hold the downloaded values and hasConflict is false; when the revision or
\* the download cannot be had, snapshot, hashes, revision and hasConflict stay
\* as they were.
C5_AcceptCloudAdoptsDownload ==
    [][/\ (user.pc = "a_rev" /\ user'.pc = "a_download") => user'.rev = Latest
       /\ (user.pc = "a_download" /\ user'.pc = "idle" /\ events' = events)
            => /\ CurrentHash(data') = SnapshotHash(remote[user.rev])
               /\ lastSavedHash' = SnapshotHash(remote[user.rev])
               /\ lastServerRevision' = user.rev
               /\ ~hasConflict'
       /\ (user.pc \in {"a_meta", "a_download"} /\ user'.pc = "idle"
             /\ events' # events)
            => UNCHANGED << data, lastSavedHash, lastServerRevision, hasConflict >>
      ]_vars

\* accept_cloud has returned after replacing a snapshot that differed from the
\* remote one: local and remote hash agree at the latest revision, no conflict
C5_Witness ==
    /\ user = Returned("accept_cloud", TRUE)
    /\ ~hasConflict
    /\ lastServerRevision = Latest
    /\ ~Dirty
    /\ CurrentHash(data) = SnapshotHash(remote[Latest])
    /\ remote[Latest] \in OtherDocs
    /\ Latest > 1

\* C6 -- Autosave idempotence: while the local snapshot stays as it is, the
\* auto-save timer firings write it to the remote store at most once.
C6_AtMostOneWrite == writes <= 1

\* The snapshot was written once, the timeout set by the successful save has
\* fired as well, and that second firing ended without an upload
C6_Witness ==
    /\ writes = 1
    /\ lastSave = "none"
    /\ AutoSaveArmed(Cur)
    /\ ~Dirty
    /\ auto.pc = "idle"
    /\ ~timer.on
    /\ user = Idle
    /\ poll.pc = "idle"
    /\ lastServerRevision = Latest
    /\ remote[Latest] = Payload(data)

\* C7 -- First run: once the initial load has found no remote document, the
\* engine is loaded (isCloudLoaded = true, auto-save enabled).
C7_FirstRunLoads == (init.pc = "failed" /\ remote = <<>>) => isCloudLoaded

\* C8 -- ServerUnavailable recovery: after an auto-save upload answered 503
\* that did not apply, the poll that finds the remote revision unchanged
\* leaves a retry behind (a timeout set or an upload under way) for the
\* snapshot that is still dirty.
C8_RetryAfterServerUnavailable ==
    [][(lastSave = "server_error" /\ Dirty /\ Healthy /\ PollSeesUnchanged)
         => (timer'.on \/ auto'.pc # "idle")]_vars

\* The step in which hasConflict is raised has its cause in a revision the
\* engine saw differ from the lastServerRevision it held, or in the store's
\* Conflict answer to an upload
ConflictCause ==
    \/ /\ auto.pc = "rev" /\ auto' = Idle /\ events' = events
       /\ Latest # auto.cap.lsr
    \/ /\ auto.pc = "saved" /\ auto' = Idle
       /\ auto.res.errorType = "conflict"
    \/ /\ user.pc = "m_rev" /\ user'.pc = "idle" /\ events' = events
       /\ Latest # user.cap.lsr
    \/ /\ user.pc = "m_saved" /\ user'.pc = "idle"
       /\ user.res.errorType = "conflict"
    \/ /\ poll.pc \in {"diag", "download"} /\ poll' = Idle
       /\ poll.rev # NoRev /\ poll.rev # poll.cap.lsr

\* C9 -- hasConflict becomes true only in a step whose cause is an observed
\* remote revision different from lastServerRevision or a Conflict rejection of
\* an upload; an upload that ended in a NetworkError leaves hasConflict as it
\* was.
C9_ConflictOnlyFromRevisionOrRejection ==
    [][/\ (~hasConflict /\ hasConflict') => ConflictCause
       /\ (auto.pc = "saved" /\ auto' = Idle /\ auto.res.errorType = "network")
            => hasConflict' = hasConflict
       /\ (user.pc \in {"m_saved", "k_saved"} /\ user'.pc = "idle"
             /\ user.res.errorType = "network")
            => (hasConflict' => hasConflict)]_vars

\* An auto-save upload has ended in a NetworkError and no conflict is shown
C9_Witness ==
    /\ lastSave = "network"
    /\ ~hasConflict
    /\ Dirty
    /\ auto.pc = "idle"

\* C10 -- Retry after NetworkError: once an auto-save upload has failed with a
\* NetworkError and the snapshot is still dirty, a retry is ahead without a new
\* local mutation: a timeout is set or an upload is under way.
C10_RetryAfterNetworkError ==
    (lastSave = "network" /\ Dirty /\ Healthy /\ user.pc = "idle"
        /\ poll.pc = "idle")
      => (timer.on \/ auto.pc # "idle")

\* C11 -- An Unauthenticated (401 / expired token) rejection of any of the three
\* remote operations (getLatestRevision, download, upload) invalidates the
\* session: the step that sees it leaves isAuthenticated false.
C11_UnauthenticatedInvalidatesSession ==
    [][rejected' # "none" => ~isAuthenticated']_vars

RECURSIVE EqualNormalized(_, _)
\* a and b are equal once every object key whose value is null or undefined is
\* removed and the order of object keys is ignored; array elements in order
EqualNormalized(a, b) ==
    IF a.t # b.t THEN FALSE
    ELSE IF a.t = "str" THEN a.v = b.v
    ELSE IF a.t = "arr"
    THEN /\ Len(a.v) = Len(b.v)
         /\ \A n \in 1..Len(a.v) : EqualNormalized(a.v[n], b.v[n])
    ELSE IF a.t = "obj"
    THEN LET ka == {k \in Keys(a) : ~IsNullish(Get(a, k))}
             kb == {k \in Keys(b) : ~IsNullish(Get(b, k))}
         IN  /\ ka = kb
             /\ \A k \in ka : EqualNormalized(Get(a, k), Get(b, k))
    ELSE TRUE

\* C12 -- Canonical hash law: for all values a and b of nested objects, arrays
\* and primitives, stableStringify(a) = stableStringify(b) if and only if a and
\* b are equal after removing every object key whose value is null or
\* undefined and ignoring object key order, array element order significant.
C12_CanonicalHashLaw ==
    pair.pc = "out" => ((pair.ha = pair.hb) <=> EqualNormalized(pair.a, pair.b))

\* C13 -- Initial load with unsaved edits of a previous session: when the
\* durable recovery hash exists and differs from the hash of the local
\* snapshot, the initial load that got the remote document leaves the local
\* snapshot as it is, sets lastServerRevision to the downloaded revision and
\* lastSavedHash to the recovery hash, and leaves the engine loaded and dirty.
C13_UnsavedEditsSurviveInitialLoad ==
    [][(/\ init.pc = "download" /\ init'.pc = "done"
        /\ storedHash \notin {NoHash, EmptyHash}
        /\ storedHash # CurrentHash(data))
         => /\ data' = data
            /\ lastServerRevision' = init.rev
            /\ lastSavedHash' = storedHash
            /\ isCloudLoaded'
            /\ CurrentHash(data') # lastSavedHash']_vars

\* The initial load has ended beside a recovery hash of other content: the
\* store still holds the local snapshot, the remote one differs from it
C13_Witness ==
    /\ init.pc = "done"
    /\ events = 0
    /\ data = D0
    /\ storedHash = CurrentHash(D1)
    /\ lastSavedHash = storedHash
    /\ lastServerRevision = 1
    /\ remote[1] = Payload(D1)
    /\ isCloudLoaded
    /\ Dirty
    /\ timer.on
    /\ auto.pc = "idle"

\* What keep_local leaves behind when saveData returns: on success the hash of
\* the uploaded snapshot, the new revision, no conflict, and the uploaded
\* snapshot as the remote content of that revision; otherwise the conflict as
\* it was
KeepLocalOutcome ==
    /\ (user.pc = "k_saved" /\ user'.pc = "idle" /\ user.res.success)
         => /\ lastSavedHash' = CurrentHash(user.cap.data)
            /\ lastServerRevision' = user.res.rev
            /\ ~hasConflict'
            /\ remote[user.res.rev] = Payload(user.cap.data)
    /\ (user.pc = "k_saved" /\ user'.pc = "idle" /\ ~user.res.success)
         => hasConflict' = hasConflict

\* C14 as stated -- keep_local re-fetches the latest revision and uploads the
\* local snapshot conditionally on that revision; on success lastSavedHash is
\* the hash of the uploaded snapshot, lastServerRevision the new revision,
\* hasConflict false and the remote content the local snapshot; otherwise
\* hasConflict stays as it is.
C14_KeepLocalConditional ==
    [][/\ (user.pc = "k_upload" /\ user'.pc = "k_saved") => user.rev # NoRev
       /\ KeepLocalOutcome]_vars

\* C14 amended -- keep_local asks for the latest revision and uploads the
\* snapshot it was called with on that revision when it got one, and without
\* a parent revision (overwrite) when the revision could not be had; an upload
\* the store takes writes that snapshot; the outcome is as stated.
C14_KeepLocalUploadsOnFetched ==
    [][/\ (user.pc = "k_rev" /\ user'.pc = "k_upload")
            => user'.rev = (IF events' = events THEN Latest ELSE NoRev)
       /\ (user.pc = "k_upload" /\ user'.pc = "k_saved" /\ remote' # remote)
            => /\ user.rev \in {NoRev, Latest}
               /\ remote' = Append(remote, Payload(user.cap.data))
       /\ KeepLocalOutcome]_vars

\* keep_local has returned after a successful upload: no conflict, the local
\* snapshot is the latest remote content and is clean
C14_Witness ==
    /\ user = Returned("keep_local", TRUE)
    /\ ~hasConflict
    /\ lastServerRevision = Latest
    /\ remote[Latest] = Payload(data)
    /\ ~Dirty

\* The step in which the store answers a keep_local upload made on a revision
\* the re-fetch returned, after a later write has landed
KeepLocalAfterLaterWrite ==
    /\ user.pc = "k_upload"
    /\ user'.pc = "k_saved"
    /\ events' = events
    /\ user.rev # NoRev
    /\ Latest > user.rev

C17_DownloadMatchesRevision ==
    [][/\ (init.pc = "download" /\ init'.pc = "done")
            => /\ lastServerRevision' = init.rev
               /\ data' # data => data' = Normalize(remote[init.rev])
       /\ (user.pc = "a_download" /\ user'.pc = "idle" /\ events' = events)
            => /\ lastServerRevision' = user.rev
               /\ data' = remote[user.rev]]_vars

\* The initial load read revision 1, another instance then wrote revision 2
\* with other content, and the load ended with the content of revision 1
C17_Witness ==
    /\ init.pc = "done"
    /\ init.raced
    /\ init.rev = 1
    /\ Latest = 2
    /\ remote[2] # remote[1]
    /\ lastServerRevision = 1
    /\ data = Normalize(remote[1])
    /\ data # Normalize(remote[2])
    /\ ~Dirty

\* C18 -- Mutual exclusion of auto-save and drift poll: in no reachable state
\* are an auto-save (pre-flight revision check or upload) and a drift poll
\* (revision check or download) in flight at the same time.
C18_AutoSaveAndPollExclusive ==
    ~(auto.pc \in {"rev", "upload"} /\ poll.pc \in {"rev", "diag", "download"})

\* C19 -- The guard window applies to every poll: checkForUpdates goes on to its
\* revision check, whether started by the interval or by a visibility, focus or
\* online event, only when no local mutation occurred within the guard window.
C19_GuardWindowAppliesToTriggers ==
    [][(poll.pc = "idle" /\ poll'.pc = "rev") => ~recent]_vars

\* C20 -- Auto-save is suspended during a conflict: while hasConflict is true
\* no auto-save callback goes on to its upload and no upload of an auto-save
\* reaches the store, a timeout set before hasConflict became true included.
C20_NoAutoSaveUploadInConflict ==
    [][/\ (auto.pc = "rev" /\ auto'.pc = "upload") => ~hasConflict
       /\ (auto.pc = "upload" /\ auto'.pc = "saved") => ~hasConflict]_vars

\* C21 -- Initial load runs once: the initial-load effect, re-run by every
\* render, starts no second loadData() while the first is in flight or after
\* it has ended, so the initial load downloads at most once and replaces the
\* local snapshot at most once.
C21_InitialLoadRunsOnce == ~init.second

\* The initial load has ended and replaced the snapshot, the user has edited
\* it since (the effect's dependencies changed), and no second load started
C21_Witness ==
    /\ init.pc = "done"
    /\ ~init.second
    /\ isAuthenticated
    /\ isCloudLoaded
    /\ init.data # Normalize(remote[init.rev])
    /\ lastSavedHash = CurrentHash(Normalize(remote[init.rev]))
    /\ data # Normalize(remote[init.rev])
    /\ Dirty
    /\ events = MaxEvents

\* C22 -- Debounce coalescing: every mutation cancels the pending auto-save
\* timeout and sets a new one, so the one timeout that is pending closes over
\* the snapshot as it is after the last mutation; a callback starts only from
\* that timeout and uses it up, and the upload it makes carries the snapshot
\* of the last mutation before the timeout fired.
C22_DebounceCoalesces ==
    [][/\ timer'.on => timer'.data = data'
       /\ (auto.pc = "idle" /\ auto'.pc = "rev")
            => (timer.on /\ ~timer'.on /\ auto'.cap.data = data)
       /\ (auto.pc = "upload" /\ auto'.pc = "saved" /\ remote' # remote)
            => remote' = Append(remote, Payload(auto.cap.data))]_vars

\* Two mutations were made without a quiet period between them (the project
\* deleted, then added again), and the one upload that followed wrote the
\* snapshot as it was after the second
C22_Witness ==
    /\ auto.pc = "saved"
    /\ auto.res.success
    /\ events = 2
    /\ Latest = 2
    /\ writes = 1
    /\ remote[2] = Payload(data)
    /\ HasId(Projects(data), "p1")
    /\ HasId(Cards(data), "c1")
    /\ Get(Cards(data).v[1], "projectIds") = JArr(<<>>)

\* C23 -- Successful auto-save bookkeeping: when an auto-save upload has
\* succeeded, lastSavedHash becomes the hash of the uploaded snapshot,
\* lastServerRevision the revision the store returned, and the hash and the
\* revision are both written to the durable crash-recovery slot.
C23_AutoSaveBookkeeping ==
    [][(auto.pc = "saved" /\ auto' = Idle /\ auto.res.success)
         => /\ lastSavedHash' = CurrentHash(auto.cap.data)
            /\ lastServerRevision' = auto.res.rev
            /\ storedHash' = CurrentHash(auto.cap.data)
            /\ storedRevision' = auto.res.rev]_vars

\* C24 -- ServerUnavailable leaves the state unresolved: when an auto-save
\* upload has come back as a 503, the engine changes none of lastSavedHash,
\* lastServerRevision, hasConflict and the local snapshot, whether the store
\* has applied the write or not.
C24_ServerUnavailableChangesNothing ==
    [][(auto.pc = "saved" /\ auto' = Idle /\ auto.res.errorType = "server_error")
         => UNCHANGED << data, lastSavedHash, lastServerRevision, hasConflict >>]_vars

\* An auto-save upload was answered 503 although the store has applied it: the
\* remote document is the local snapshot under a revision the engine does not
\* know, and the engine is as dirty and as free of conflict as before
C24_Witness ==
    /\ lastSave = "server_error"
    /\ auto.pc = "idle"
    /\ writes = 1
    /\ remote[Latest] = Payload(data)
    /\ lastServerRevision = Latest - 1
    /\ Dirty
    /\ ~hasConflict
    /\ isAuthenticated

\* The step in which checkForUpdates gets from getLatestRevision() nothing,
\* or the revision lastServerRevision holds
PollSeesNothingNew ==
    /\ poll.pc = "rev"
    /\ poll' # poll
    /\ (events' # events \/ Latest = NoRev \/ Latest = lastServerRevision)

\* C25 -- Drift poll no-op: when getLatestRevision() returns nothing or a
\* revision equal to lastServerRevision, the poll ends without a download and
\* leaves the local snapshot, lastSavedHash, lastServerRevision and
\* hasConflict as they are.
C25_PollNoOp ==
    [][PollSeesNothingNew
         => /\ poll' = Idle
            /\ UNCHANGED << data, lastSavedHash, lastServerRevision, hasConflict >>]_vars

\* The step in which checkForUpdates gets from getLatestRevision() a revision
\* other than lastServerRevision while the local snapshot is clean
PollSeesNewWhileClean ==
    /\ poll.pc = "rev"
    /\ poll' # poll
    /\ events' = events
    /\ Latest # NoRev
    /\ Latest # lastServerRevision
    /\ ~Dirty

\* The step in which the pull of a poll that found the snapshot clean gets the
\* document, the snapshot still being the one the poll found
PollPullsWhileClean ==
    /\ poll.pc = "download"
    /\ poll' = Idle
    /\ events' = events
    /\ ~poll.dirty
    /\ data = poll.seen

\* C26 -- Drift poll clean pull: a poll that observes a revision R other than
\* lastServerRevision while the local snapshot is clean downloads exactly
\* revision R, replaces the local snapshot with it, sets lastSavedHash to the
\* hash of the resulting snapshot and lastServerRevision to R and clears
\* hasConflict, so the engine is clean afterwards.
C26_PollCleanPull ==
    [][/\ PollSeesNewWhileClean
            => (poll'.pc = "download" /\ poll'.rev = Latest)
       /\ PollPullsWhileClean
            => /\ data' = Normalize(remote[poll.rev])
               /\ lastSavedHash' = CurrentHash(data')
               /\ lastServerRevision' = poll.rev
               /\ ~hasConflict']_vars

\* The step in which checkForUpdates gets from getLatestRevision() a revision
\* other than lastServerRevision while the local snapshot differs from the
\* one last saved
PollSeesNewWhileDirty ==
    /\ poll.pc = "rev"
    /\ poll' # poll
    /\ events' = events
    /\ Latest # NoRev
    /\ Latest # lastServerRevision
    /\ lastSavedHash # EmptyHash
    /\ Dirty

\* C27 -- Drift poll conflict is independent of the diagnostic diff: a poll
\* that observes a new remote revision while the local snapshot is dirty takes
\* the conflict path, and when its diagnostic download has returned, with the
\* document or without, hasConflict is true and the local snapshot,
\* lastSavedHash and lastServerRevision are as they were.
C27_PollConflictWhateverTheDiff ==
    [][/\ PollSeesNewWhileDirty => poll'.pc = "diag"
       /\ (poll.pc = "diag" /\ poll' = Idle)
            => (hasConflict' /\ UNCHANGED << data, lastSavedHash, lastServerRevision >>)
      ]_vars

\* C28 -- Empty values are not absent: for an object o and a key k,
\* stableStringify of o with k set to the empty string or to the empty array
\* differs from stableStringify of o without k, and stableStringify of o with
\* k set to null or undefined equals it.
C28_EmptyIsNotAbsent ==
    pair.pc = "out" =>
        \A k \in Keys(pair.a) :
            pair.b = Without(pair.a, k) =>
                /\ Get(pair.a, k) \in {JStr(""), JArr(<<>>)} => pair.ha # pair.hb
                /\ IsNullish(Get(pair.a, k)) => pair.ha = pair.hb

\* The two strings were computed for an object whose id is the empty string
\* and for the same object without id, and they differ
C28_Witness ==
    /\ pair.pc = "out"
    /\ pair.a = JObj(<< <<"id", JStr("")>>, <<"cards", JArr(<<>>)>> >>)
    /\ pair.b = JObj(<< <<"cards", JArr(<<>>)>> >>)
    /\ pair.ha # pair.hb

\* every id in a card's projectIds is the id of a project of the store
ReferencesExist(d) ==
    \A n \in 1..Len(Cards(d).v) :
        \A m \in 1..Len(Get(Cards(d).v[n], "projectIds").v) :
            HasId(Projects(d), Get(Cards(d).v[n], "projectIds").v[m].v)

\* no card's projectIds holds id
Unreferenced(d, id) ==
    \A n \in 1..Len(Cards(d).v) :
        \A m \in 1..Len(Get(Cards(d).v[n], "projectIds").v) :
            Get(Cards(d).v[n], "projectIds").v[m].v # id

\* C29 -- deleteProject preserves referential integrity: when every card's
\* projectIds holds only ids of existing projects before deleteProject(id), it
\* does so afterwards, and afterwards no card's projectIds holds id.
C29_DeleteProjectKeepsReferences ==
    [][user' # user =>
          /\ ReferencesExist(data) => ReferencesExist(data')
          /\ Unreferenced(data', user'.id)]_vars

\* Project p1 has been deleted from a store of two cards and two projects:
\* the cards are still there, they name p2 alone, and p2 exists
C29_Witness ==
    /\ user = Deleted("p1")
    /\ data = MkData(<< ProjectOf("p2") >>,
                     << CardOf(1, << JStr("p2") >>), CardOf(2, << JStr("p2") >>) >>)
    /\ ReferencesExist(data)

\* C30 -- No lost remote update by auto-save: the remote content an auto-save
\* upload replaces is content this instance has had as its synced snapshot
\* (its hash is the lastSavedHash the upload started from) or the very
\* content it uploads; this holds as well for the auto-save after an initial
\* load that kept unsaved local edits and took over the remote revision.
C30_AutoSaveLosesNoRemoteUpdate ==
    [][(auto.pc = "upload" /\ auto'.pc = "saved" /\ remote' # remote
          /\ Latest # NoRev)
         => SnapshotHash(remote[Latest])
               \in {auto.cap.lsh, CurrentHash(auto.cap.data)}]_vars

\* C31 -- No self-inflicted conflict: when this instance is the only writer of
\* the remote document, hasConflict never becomes true, whatever the order of
\* mutations, auto-saves and polls and however the uploads end (success,
\* NetworkError, 503 with the write applied or not).
C31_NoSelfInflictedConflict == ~hasConflict

Paired(hash, rev) ==
    /\ rev # NoRev
    /\ hash = SnapshotHash(remote[rev])

\* hash is the hash of that document as a pull normalizes it
PairedNormalized(hash, rev) ==
    /\ rev # NoRev
    /\ hash = SnapshotHash(Normalize(remote[rev]))

AutoSaveSucceeds == auto.pc = "saved" /\ auto' = Idle /\ auto.res.success

ManualSaveSucceeds == user.pc = "m_saved" /\ user' = Returned("manual", TRUE)

KeepLocalSucceeds == user.pc = "k_saved" /\ user' = Returned("keep_local", TRUE)

AcceptCloudSucceeds == user.pc = "a_download" /\ user' = Returned("accept_cloud", TRUE)

\* C33 as stated -- Hash/revision pairing: right after every successful
\* auto-save, manual save, clean drift pull, accept_cloud or keep_local,
\* lastSavedHash is the hash of the content the store holds under
\* lastServerRevision.
C33_HashRevisionPairing ==
    [][(AutoSaveSucceeds \/ ManualSaveSucceeds \/ KeepLocalSucceeds
          \/ AcceptCloudSucceeds \/ PollPulls)
         => Paired(lastSavedHash', lastServerRevision')]_vars

\* C33 -- Hash/revision pairing: right after every successful auto-save,
\* manual save, accept_cloud or keep_local, lastSavedHash is the hash of the
\* content the store holds under lastServerRevision; right after a drift pull
\* it is the hash of that content with the arrays the pull fills in (projects,
\* cards, customColors, and each card's projectIds, attachments and
\* linkedCardIds), which is the new local snapshot.
C33_HashRevisionPairingNormalized ==
    [][/\ (AutoSaveSucceeds \/ ManualSaveSucceeds \/ KeepLocalSucceeds
             \/ AcceptCloudSucceeds)
            => Paired(lastSavedHash', lastServerRevision')
       /\ PollPulls => /\ PairedNormalized(lastSavedHash', lastServerRevision')
                       /\ lastSavedHash' = CurrentHash(data')]_vars

\* A drift pull has applied a document whose card came without attachments and
\* linkedCardIds: the snapshot is clean, and lastSavedHash is not the hash of
\* the document under lastServerRevision
C33_Witness ==
    /\ poll.pc = "idle"
    /\ lastServerRevision = Latest
    /\ Latest > 1
    /\ remote[Latest] = Payload(DBare)
    /\ data = Normalize(Payload(DBare))
    /\ ~Dirty
    /\ ~Paired(lastSavedHash, lastServerRevision)

\* C34 -- Manual save obeys the conflict gates of auto-save: called while
\* hasConflict it returns success = false and uploads nothing; when
\* getLatestRevision() answers a revision different from the non-null
\* lastServerRevision it holds, it sets hasConflict, returns success = false and
\* uploads nothing; when the store rejects its upload as a conflict, it sets
\* hasConflict, returns success = false and leaves lastSavedHash and
\* lastServerRevision as they are.
C34_ManualSaveGates ==
    [][/\ (user.pc = "idle" /\ hasConflict) => user'.pc # "m_rev"
       /\ (user.pc = "idle" /\ hasConflict /\ user' # user
              /\ user' = Returned("manual", FALSE))
            => UNCHANGED << remote, hasConflict, lastSavedHash, lastServerRevision >>
       /\ (user.pc = "m_rev" /\ user' # user /\ events' = events
              /\ user.cap.lsr # NoRev /\ Latest # user.cap.lsr)
            => /\ hasConflict'
               /\ user' = Returned("manual", FALSE)
               /\ remote' = remote
       /\ (user.pc = "m_saved" /\ user' # user /\ user.res.conflict)
            => /\ hasConflict'
               /\ user' = Returned("manual", FALSE)
               /\ UNCHANGED << lastSavedHash, lastServerRevision >>]_vars

\* The store has rejected the upload of a manual save as a conflict, and no
\* conflict is shown yet
C34_Witness ==
    /\ user.pc = "m_saved"
    /\ user.res.conflict
    /\ ~hasConflict
    /\ user.cap.lsr # Latest

\* C35 -- hasConflict is cleared only by a completed pull or an authorized
\* overwrite: it goes from true to false only in a step in which accept_cloud
\* has downloaded and applied the remote snapshot, keep_local has uploaded, or
\* a drift poll pulls a revision into a clean local snapshot; no mutation,
\* auto-save, manual save, failed resolution or no-op poll clears it.
C35_ConflictClearedOnlyByResolution ==
    [][(hasConflict /\ ~hasConflict')
         => (AcceptCloudSucceeds \/ KeepLocalSucceeds \/ (PollPulls /\ ~Dirty))]_vars

\* The local snapshot is saved: it is clean and the store's latest document is
\* the snapshot
Saved ==
    /\ ~Dirty
    /\ Latest # NoRev
    /\ SnapshotHash(remote[Latest]) = CurrentHash(data)

\* An authenticated instance after its initial load, without a conflict, with
\* a dirty snapshot of at least one project
SaveDue ==
    /\ isAuthenticated
    /\ isCloudLoaded
    /\ ~hasConflict
    /\ Dirty
    /\ Len(Projects(data).v) # 0

\* C36 -- Eventual save: one authenticated instance after its initial load, a
\* reliable network, no other writer, no conflict: when the snapshot is dirty
\* with at least one project and the user makes no further edit (events stays
\* at k), the engine eventually reaches a state where the snapshot is clean
\* and the remote content is the local snapshot. Behaviours that use up the
\* revisions of the store are left aside.
C36_EventualSave ==
    \A k \in 0..MaxEvents :
        (SaveDue /\ events = k) ~> (Saved \/ events # k \/ Latest = MaxRev)

\* the ids of the cards of a store
CardIdsOf(d) == {IdOf(Cards(d).v[n]) : n \in 1..Len(Cards(d).v)}

\* the card with the id a lists b
Lists(d, a, b) ==
    \E n \in 1..Len(Cards(d).v) :
        IdOf(Cards(d).v[n]) = a /\ Includes(Links(Cards(d).v[n]), b)

\* A lists B iff B lists A, for the cards A and B of the store
Symmetric(d) ==
    \A a \in CardIdsOf(d) : \A b \in CardIdsOf(d) : Lists(d, a, b) <=> Lists(d, b, a)

UpdateCardCalled == "op" \in DOMAIN user /\ user.op = "updateCard"
DeleteCardCalled == "op" \in DOMAIN user /\ user.op = "deleteCard"

\* C37 -- Link symmetry is preserved by updateCard and deleteCard: when the
\* linkedCardIds relation of the store is symmetric before updateCard(c) for
\* an existing card c, or before deleteCard(id), it is symmetric afterwards;
\* after updateCard(c) every card c lists now and did not list before lists
\* c's id, and no card c listed before and does not list now lists c's id;
\* updateCard for an id no card of the store has leaves the store as it was.
C37_LinkSymmetryPreserved ==
    /\ (UpdateCardCalled /\ HasId(Cards(user.prev), IdOf(user.card))
                         /\ Symmetric(user.prev)) => Symmetric(data)
    /\ (DeleteCardCalled /\ Symmetric(user.prev)) => Symmetric(data)
    /\ (UpdateCardCalled /\ HasId(Cards(user.prev), IdOf(user.card))) =>
           \A b \in CardIdsOf(data) :
               /\ (Includes(Links(user.card), b)
                      /\ ~Lists(user.prev, IdOf(user.card), b))
                   => Lists(data, b, IdOf(user.card))
               /\ (~Includes(Links(user.card), b)
                      /\ Lists(user.prev, IdOf(user.card), b))
                   => ~Lists(data, b, IdOf(user.card))
    /\ (UpdateCardCalled /\ ~HasId(Cards(user.prev), IdOf(user.card))) =>
           data = user.prev

\* updateCard has linked c1 to c3 and unlinked it from c2 in a store of three
\* cards whose relation was symmetric
C37_Witness ==
    /\ UpdateCardCalled
    /\ IdOf(user.card) = "c1"
    /\ CardIdsOf(user.prev) = {"c1", "c2", "c3"}
    /\ Symmetric(user.prev)
    /\ Lists(user.prev, "c1", "c2") /\ ~Lists(user.prev, "c1", "c3")
    /\ Includes(Links(user.card), "c3") /\ ~Includes(Links(user.card), "c2")
    /\ Lists(data, "c3", "c1") /\ ~Lists(data, "c2", "c1")

\* C38 -- No dangling links after deletion: after deleteCard(id) no card of
\* the store has the id and no remaining card's linkedCardIds contains it;
\* the other cards are all there with their fields other than linkedCardIds
\* as they were, and the projects list is as it was.
C38_NoDanglingLinksAfterDelete ==
    DeleteCardCalled =>
        /\ ~HasId(Cards(data), user.id)
        /\ \A a \in CardIdsOf(data) : ~Lists(data, a, user.id)
        /\ Len(Cards(data).v) = Cardinality(CardIdsOf(user.prev) \ {user.id})
        /\ \A n \in 1..Len(Cards(data).v) :
              /\ HasId(Cards(user.prev), IdOf(Cards(data).v[n]))
              /\ Without(Cards(data).v[n], "linkedCardIds")
                    = Without(FindCard(user.prev, IdOf(Cards(data).v[n])),
                              "linkedCardIds")
        /\ Projects(data) = Projects(user.prev)

\* deleteCard has removed a card that two other cards listed, one of them
\* together with another link
C38_Witness ==
    /\ DeleteCardCalled
    /\ user.id = "c2"
    /\ CardIdsOf(user.prev) = {"c1", "c2", "c3"}
    /\ Lists(user.prev, "c1", "c2") /\ Lists(user.prev, "c3", "c2")
    /\ Lists(user.prev, "c1", "c3")
    /\ CardIdsOf(data) = {"c1", "c3"}
    /\ Lists(data, "c1", "c3")

\* The auto-save callback calls saveWithMeta(currentData)
AutoSaveIssuesUpload == auto.pc = "rev" /\ auto'.pc = "upload"

\* The store applies the upload of the auto-save callback
AutoSaveWrites == auto.pc = "upload" /\ auto'.pc = "saved" /\ remote' # remote

\* C39 -- Empty-project guard, as stated: no auto-save timeout is pending
\* while the local snapshot has zero projects, the auto-save callback issues
\* no upload while the local snapshot has zero projects, and no document
\* with an empty project list is written to the store by auto-save.
C39_EmptyProjectGuard ==
    /\ [](timer.on => Len(Projects(data).v) # 0)
    /\ [][AutoSaveIssuesUpload => Len(Projects(data).v) # 0]_vars
    /\ [][AutoSaveWrites =>
             Len(Get(remote'[Len(remote')], "projects").v) # 0]_vars

\* C39 -- Empty-project guard, of the snapshot the callback holds: no
\* auto-save timeout is pending while the local snapshot has zero projects,
\* the snapshot a running auto-save callback holds has at least one project
\* whatever the local snapshot has become, and no document with an empty
\* project list is written to the store by auto-save.
C39_EmptyProjectGuardOfCaptured ==
    /\ [](timer.on => (Len(Projects(data).v) # 0 /\ timer.data = data))
    /\ [](auto.pc \in {"rev", "upload", "saved"} =>
               Len(Projects(auto.cap.data).v) # 0)
    /\ [][AutoSaveWrites =>
             /\ Get(remote'[Len(remote')], "projects") = Projects(auto.cap.data)
             /\ Len(Get(remote'[Len(remote')], "projects").v) # 0]_vars

\* The store has applied an auto-save upload that was issued after the user
\* deleted the last project
C39_Witness ==
    /\ auto.pc = "saved"
    /\ auto.res.success
    /\ Len(Projects(data).v) = 0
    /\ ~timer.on
    /\ Latest # NoRev
    /\ Get(remote[Latest], "projects") = Projects(auto.cap.data)

====
